---------------------------- MODULE Spec2Model ----------------------------
(***************************************************************************)
(* A model of the Portainer agent charm (src/src/charm.py).                *)
(*                                                                         *)
(* The charm is a single-threaded set of event handlers.  Every handler is *)
(* one action of the model.  A handler is written as an operator from a    *)
(* pass context to the SET of contexts the pass can end in: every remote   *)
(* call (Kubernetes API, Pebble) contributes one context per outcome the   *)
(* call can have, and a raised exception ends the pass at once.            *)
(*                                                                         *)
(* Python's None is the empty tuple <<>> and a present value v is <<v>>;   *)
(* a dict is a function whose DOMAIN is the set of keys present.           *)
(***************************************************************************)
EXTENDS Integers, Sequences, FiniteSets, TLC

VARIABLES
    stored,        \* self._stored.config: the committed configuration
    modelConfig,   \* self.model.config: the configuration Juju hands to a hook
    k8s,           \* remote services of the namespace, by name (None = absent)
    pebble,        \* the workload container's plan and process
    status,        \* self.unit.status
    pending,       \* events deferred (or not yet delivered) and due again
    last,          \* what the most recent step did
    passes,        \* handler invocations so far
    sets,          \* operator changes of the Juju configuration so far
    fn             \* inputs and results of the pure functions (SpecFn only)

vars == <<stored, modelConfig, k8s, pebble, status, pending, last, passes, sets, fn>>

-----------------------------------------------------------------------------
(* Bounds of the model.                                                    *)

MaxPasses == 3
MaxConfigSets == 1

-----------------------------------------------------------------------------
(* Constants of charm.py, lines 20-29.                                     *)

SERVICETYPE_LB == "LoadBalancer"
SERVICETYPE_CIP == "ClusterIP"
SERVICETYPE_NP == "NodePort"
CONFIG_SERVICETYPE == "service_type"
CONFIG_SERVICEHTTPPORT == "service_http_port"
CONFIG_SERVICEHTTPNODEPORT == "service_http_node_port"
CONFIG_EDGE == "edge"
CONFIG_EDGE_ID == "edge_id"
CONFIG_EDGE_KEY == "edge_key"

None == <<>>
Some(v) == <<v>>

\* self.app.name; _start_portainer_agent spells the same name as a literal.
AppName == "portainer-agent"
\* f"{self.app.name}-headless"
HeadlessName == "portainer-agent-headless"

DefaultHttpPort == 9001
DefaultNodePort == 30778
TargetPort == 9001
OtherHttpPort == DefaultHttpPort + 1
OtherNodePort == DefaultNodePort + 1

ConfigKeys ==
    {CONFIG_SERVICETYPE, CONFIG_SERVICEHTTPPORT, CONFIG_SERVICEHTTPNODEPORT,
     CONFIG_EDGE, CONFIG_EDGE_ID, CONFIG_EDGE_KEY}

\* The values a configuration field takes in the model.
\* "ExternalName" stands for any service type the charm does not recognize.
FieldValues(k) ==
    CASE k = CONFIG_SERVICETYPE -> {SERVICETYPE_LB, SERVICETYPE_CIP, SERVICETYPE_NP, "ExternalName"}
      [] k = CONFIG_SERVICEHTTPPORT -> {DefaultHttpPort, OtherHttpPort}
      [] k = CONFIG_SERVICEHTTPNODEPORT -> {DefaultNodePort, OtherNodePort}
      [] k = CONFIG_EDGE -> BOOLEAN
      [] k = CONFIG_EDGE_ID -> {"", "X"}
      [] k = CONFIG_EDGE_KEY -> {"", "Y"}

\* _default_config
DefaultConfig ==
    [k \in ConfigKeys |->
        CASE k = CONFIG_SERVICETYPE -> SERVICETYPE_LB
          [] k = CONFIG_SERVICEHTTPPORT -> DefaultHttpPort
          [] k = CONFIG_SERVICEHTTPNODEPORT -> DefaultNodePort
          [] k = CONFIG_EDGE -> FALSE
          [] k = CONFIG_EDGE_ID -> ""
          [] k = CONFIG_EDGE_KEY -> ""]

-----------------------------------------------------------------------------
(* Dict helpers.                                                           *)

\* dict.get(k): None when the key is absent.
PyGet(d, k) == IF k \in DOMAIN d THEN Some(d[k]) ELSE None

\* Python truth of an optional boolean: None and False are falsy.
Truthy(o) == o # None /\ o[1] = TRUE

\* { **a, **b }
Merge(a, b) ==
    [k \in DOMAIN a \cup DOMAIN b |-> IF k \in DOMAIN b THEN b[k] ELSE a[k]]

\* d with key k set to v / with key k removed
DictSet(d, k, v) == [j \in DOMAIN d \cup {k} |-> IF j = k THEN v ELSE d[j]]
DictDel(d, k) == [j \in DOMAIN d \ {k} |-> d[j]]

-----------------------------------------------------------------------------
(* Pure functions of the charm.                                            *)

\* _validate_config
ValidateConfig(config) ==
    IF ~Truthy(PyGet(config, CONFIG_EDGE))
    THEN IF PyGet(config, CONFIG_SERVICETYPE) \notin
                {Some(SERVICETYPE_CIP), Some(SERVICETYPE_LB), Some(SERVICETYPE_NP)}
         THEN FALSE
         ELSE IF PyGet(config, CONFIG_SERVICEHTTPPORT) = None
              THEN FALSE
              ELSE TRUE
    ELSE IF PyGet(config, CONFIG_EDGE_ID) = None \/ PyGet(config, CONFIG_EDGE_KEY) = None
         THEN FALSE
         ELSE TRUE

\* the loop returning on its first key, whatever the comparison gives
HasConfigChange_FirstKeyOnly(current, target, keys) ==
    IF keys = <<>>
    THEN FALSE
    ELSE PyGet(current, Head(keys)) # PyGet(target, Head(keys))

\* _has_config_change, with self._config passed as current
RECURSIVE HasConfigChange(_, _, _)
HasConfigChange(current, target, keys) ==
    IF keys = <<>>
    THEN FALSE
    ELSE IF PyGet(current, Head(keys)) # PyGet(target, Head(keys))
         THEN TRUE
         ELSE HasConfigChange(current, target, Tail(keys))

\* the key lists of _on_config_changed, lines 149 and 157
ExposureKeys == <<CONFIG_SERVICEHTTPNODEPORT, CONFIG_SERVICETYPE, CONFIG_EDGE>>
RestartKeys == <<CONFIG_EDGE, CONFIG_EDGE_ID, CONFIG_EDGE_KEY, CONFIG_SERVICEHTTPPORT>>

-----------------------------------------------------------------------------
(* Service specs: kubernetes.client.V1ServiceSpec with the attributes the   *)
(* charm sets; external_name stands for the attributes it never sets.      *)

\* the spec with the node port never set on the http port entry
BuildK8sSpecByConfig_NoNodePort(config) ==
    LET result ==
            [type |-> Some(config[CONFIG_SERVICETYPE]),
             ports |-> Some(<<[name |-> "http", port |-> config[CONFIG_SERVICEHTTPPORT],
                              target_port |-> TargetPort, node_port |-> None]>>),
             selector |-> Some(AppName),
             cluster_ip |-> None,
             external_name |-> None]
    IN  IF config[CONFIG_EDGE]
        THEN [result EXCEPT !.cluster_ip = Some("None"), !.type = Some(SERVICETYPE_CIP)]
        ELSE result

\* the spec with edge mode setting the cluster address but keeping the type
BuildK8sSpecByConfig_EdgeKeepsType(config) ==
    LET service_type == config[CONFIG_SERVICETYPE]
        http_port ==
            [name |-> "http",
             port |-> config[CONFIG_SERVICEHTTPPORT],
             target_port |-> TargetPort,
             node_port |->
                IF service_type = SERVICETYPE_NP /\ CONFIG_SERVICEHTTPNODEPORT \in DOMAIN config
                THEN Some(config[CONFIG_SERVICEHTTPNODEPORT])
                ELSE None]
        result ==
            [type |-> Some(service_type),
             ports |-> Some(<<http_port>>),
             selector |-> Some(AppName),
             cluster_ip |-> None,
             external_name |-> None]
    IN  IF config[CONFIG_EDGE]
        THEN [result EXCEPT !.cluster_ip = Some("None")]
        ELSE result

\* _build_k8s_spec_by_config
BuildK8sSpecByConfig(config) ==
    LET service_type == config[CONFIG_SERVICETYPE]
        http_port ==
            [name |-> "http",
             port |-> config[CONFIG_SERVICEHTTPPORT],
             target_port |-> TargetPort,
             node_port |->
                IF service_type = SERVICETYPE_NP /\ CONFIG_SERVICEHTTPNODEPORT \in DOMAIN config
                THEN Some(config[CONFIG_SERVICEHTTPNODEPORT])
                ELSE None]
        result ==
            [type |-> Some(service_type),
             ports |-> Some(<<http_port>>),
             selector |-> Some(AppName),
             cluster_ip |-> None,
             external_name |-> None]
    IN  IF config[CONFIG_EDGE]
        THEN [result EXCEPT !.cluster_ip = Some("None"), !.type = Some(SERVICETYPE_CIP)]
        ELSE result

\* the spec of _build_k8s_headless_service
BuildK8sHeadlessSpec ==
    [type |-> None,
     ports |-> None,
     selector |-> Some(AppName),
     cluster_ip |-> Some("None"),
     external_name |-> None]

\* client.sanitize_for_serialization: attribute names become JSON names; the
\* unset attributes are still there, as None (the comment above
\* _patch_k8s_service_by_config).
SanitizePort(p) ==
    [name |-> Some(p.name), port |-> Some(p.port),
     targetPort |-> Some(p.target_port), nodePort |-> p.node_port]

SanitizeForSerialization(spec) ==
    [type |-> spec.type,
     ports |-> IF spec.ports = None THEN None
               ELSE Some([i \in 1..Len(spec.ports[1]) |-> SanitizePort(spec.ports[1][i])]),
     selector |-> spec.selector,
     clusterIP |-> spec.cluster_ip,
     externalName |-> spec.external_name]

\* utils.clean_nones: drops every None entry, at every depth.
CleanNonesDict(d) == [k \in {j \in DOMAIN d : d[j] # None} |-> d[k][1]]

CleanNones(d) ==
    LET top == CleanNonesDict(d)
    IN  [k \in DOMAIN top |->
            IF k = "ports"
            THEN [i \in 1..Len(top[k]) |-> CleanNonesDict(top[k][i])]
            ELSE top[k]]

\* what the API server receives for a spec
Serialize(spec) == CleanNones(SanitizeForSerialization(spec))

\* the order in which the serialized spec's keys are iterated
SpecFieldOrder == <<"clusterIP", "externalName", "ports", "selector", "type">>

\* the patch document with an operation for every field of the spec, the
\* unset ones included
PatchBody_EveryField(new_config) ==
    LET spec == Serialize(BuildK8sSpecByConfig(new_config))
    IN  [i \in 1..Len(SpecFieldOrder) |->
            [op |-> "replace", path |-> <<"spec", SpecFieldOrder[i]>>,
             value |-> IF SpecFieldOrder[i] \in DOMAIN spec
                       THEN spec[SpecFieldOrder[i]] ELSE None]]

\* the patch document of _patch_k8s_service_by_config, lines 185-194
PatchBody(new_config) ==
    LET spec == Serialize(BuildK8sSpecByConfig(new_config))
        ks == SelectSeq(SpecFieldOrder, LAMBDA k : k \in DOMAIN spec)
    IN  [i \in 1..Len(ks) |->
            [op |-> "replace", path |-> <<"spec", ks[i]>>, value |-> spec[ks[i]]]]

\* The API server applying a JSON patch of replace operations to a service.
ApplyPatch(svc, body) ==
    LET touched == {body[i].path[2] : i \in 1..Len(body)}
    IN  [k \in DOMAIN svc \cup touched |->
            IF k \in touched
            THEN body[CHOOSE i \in 1..Len(body) : body[i].path[2] = k].value
            ELSE svc[k]]

-----------------------------------------------------------------------------
(* Unit status values.                                                     *)

StatusUnset == "unset"
WaitingK8sAuth == "Waiting: waiting for k8s auth"
WaitingValidConfig == "Waiting: waiting for a valid config"
WaitingContainer == "Waiting: waiting for container to start"
WaitingPod == "Waiting: waiting for pod to start"
WaitingService == "Waiting: waiting for service to start"
BlockedTrust == "Blocked: Run juju trust on this application to continue"
MaintenanceCreating == "Maintenance: creating kubernetes service for portainer agent"
Active == "Active"

-----------------------------------------------------------------------------
(* The context of one pass of a handler.                                   *)
(*   ops       the remote calls, defers and commits of the pass, in order  *)
(*   deferred  event.defer() has been called                               *)
(*   returned  the handler has returned early                              *)
(*   raised    an exception is propagating                                 *)
(*   ok, layer the value returned by the last call of _k8s_auth and of     *)
(*             _build_layer_by_config                                      *)

Begin ==
    [stored |-> stored, status |-> status, k8s |-> k8s, pebble |-> pebble,
     ops |-> <<>>, deferred |-> FALSE, returned |-> FALSE, raised |-> FALSE,
     ok |-> TRUE, layer |-> None]

Log(c, op, name, body) ==
    [c EXCEPT !.ops = Append(@, [op |-> op, name |-> name, body |-> body])]

Raise(c) == [c EXCEPT !.raised = TRUE]
SetStatus(c, s) == [c EXCEPT !.status = s]
\* event.defer()
Defer(c) == [Log(c, "defer", "", None) EXCEPT !.deferred = TRUE]
Return(c) == [c EXCEPT !.returned = TRUE]

\* the outcomes of a call to the Kubernetes API that the charm tells apart
ApiOk == "ok"
ApiForbidden == "403"
ApiNotFound == "404"
ApiError == "500"
ApiConflict == "409"

\* the cluster address the API server allocates to a service that names none,
\* and the address of the unit's pod
AllocatedClusterIP == "10.152.183.10"
PodIP == "10.1.0.5"

\* _k8s_auth: the probe lists the services of the namespace.
K8sAuth(c) ==
    { [Log(c, "list_namespaced_service", "", Some(ApiOk)) EXCEPT !.ok = TRUE],
      [SetStatus(Log(c, "list_namespaced_service", "", Some(ApiForbidden)), BlockedTrust)
            EXCEPT !.ok = FALSE],
      Raise(Log(c, "list_namespaced_service", "", Some(ApiError))) }

\* the service created without the delete before it
CreateK8sService_NoDelete(c, name, spec) ==
    LET cr(answer) == Log(c, "create_namespaced_service", name,
                          Some([spec |-> Serialize(spec), answer |-> answer]))
    IN  IF c.k8s[name] # None
        THEN { Raise(cr(ApiConflict)) }
        ELSE { [cr(ApiOk) EXCEPT !.k8s[name] = Some(Serialize(spec))], Raise(cr(ApiError)) }

\* _create_k8s_service: delete, a 404 ignored, then create.  The API server
\* holds at most one service per name: it answers a delete of an absent
\* service with 404 and refuses to create over an existing one (409).
CreateK8sService(c, name, spec) ==
    LET del(answer) == Log(c, "delete_namespaced_service", name, Some(answer))
        deleted == IF c.k8s[name] = None
                   THEN { del(ApiNotFound), Raise(del(ApiError)) }
                   ELSE { [del(ApiOk) EXCEPT !.k8s[name] = None], Raise(del(ApiError)) }
    IN  UNION { IF d.raised THEN {d}
                ELSE LET cr(answer) == Log(d, "create_namespaced_service", name,
                                           Some([spec |-> Serialize(spec), answer |-> answer]))
                     IN  IF d.k8s[name] # None
                         THEN { Raise(cr(ApiConflict)) }
                         ELSE { [cr(ApiOk) EXCEPT !.k8s[name] = Some(Serialize(spec))],
                                Raise(cr(ApiError)) }
              : d \in deleted }

\* _patch_k8s_service_by_config
PatchK8sServiceByConfig(c, name, new_config) ==
    LET body == PatchBody(new_config)
        call == Log(c, "patch_namespaced_service", name, Some(body))
    IN  IF body # <<>>
        THEN IF c.k8s[name] = None
             THEN { Raise(call) }
             ELSE { [call EXCEPT !.k8s[name] = Some(ApplyPatch(c.k8s[name][1], body))],
                    Raise(call) }
        ELSE { c }

-----------------------------------------------------------------------------
(* Pebble and the runtime descriptor.                                      *)

\* container.stop / add_layer(combine = True) / start: each call can fail.
PebbleStop(c) ==
    LET call == Log(c, "stop", AppName, None)
    IN  { [call EXCEPT !.pebble.running = FALSE], Raise(call) }

PebbleAddLayer(c, layer) ==
    LET call == Log(c, "add_layer", AppName, Some(layer))
    IN  { [call EXCEPT !.pebble.layer = Some(layer)], Raise(call) }

PebbleStart(c) ==
    LET call == Log(c, "start", AppName, None)
    IN  { [call EXCEPT !.pebble.running = TRUE], Raise(call) }

\* service.spec.cluster_ip of a service the API server holds
ClusterIPOf(svc) ==
    IF "clusterIP" \in DOMAIN svc THEN svc["clusterIP"] ELSE AllocatedClusterIP

\* the dict returned by _build_layer_by_config, lines 260-276
Layer(config, agent_cluster_ip, pod_ip) ==
    [override |-> "replace",
     command |-> "./agent",
     startup |-> "enabled",
     environment |->
        [AGENT_PORT |-> config[CONFIG_SERVICEHTTPPORT],
         AGENT_CLUSTER_ADDR |-> agent_cluster_ip,
         KUBERNETES_POD_IP |-> pod_ip,
         EDGE |-> IF config[CONFIG_EDGE] THEN "1" ELSE "0",
         EDGE_ID |-> config[CONFIG_EDGE_ID],
         EDGE_KEY |-> config[CONFIG_EDGE_KEY]]]

\* _build_layer_by_config: the probe (its result is not looked at), the pod
\* lookup and the service lookup; a 404 of either leaves the value None.
\* The service lookup answers 404 exactly when the primary service is absent.
BuildLayerByConfig(c, config) ==
    UNION { IF a.raised THEN {a}
            ELSE UNION {
                LET read == Log(a, "read_namespaced_pod", "", Some(pod))
                IN  IF pod = ApiError THEN { Raise(read) }
                    ELSE LET pod_ip == IF pod = ApiOk THEN Some(PodIP) ELSE None
                             b == IF pod = ApiNotFound THEN SetStatus(read, WaitingPod) ELSE read
                             found == b.k8s[AppName] # None
                         IN  UNION {
                                IF svc = ApiError
                                THEN { Raise(Log(b, "read_namespaced_service", AppName, Some(svc))) }
                                ELSE LET answer == IF found THEN ApiOk ELSE ApiNotFound
                                         looked == Log(b, "read_namespaced_service", AppName,
                                                       Some(answer))
                                         agent_cluster_ip ==
                                            IF found THEN Some(ClusterIPOf(b.k8s[AppName][1]))
                                            ELSE None
                                         d == IF found THEN looked
                                              ELSE SetStatus(looked, WaitingService)
                                     IN  { [d EXCEPT !.layer =
                                                Some(Layer(config, agent_cluster_ip, pod_ip))] }
                              : svc \in {ApiOk, ApiError} }
              : pod \in {ApiOk, ApiNotFound, ApiError} }
          : a \in K8sAuth(c) }

\* the restart with the descriptor installed before the process is stopped
UpdatePebble_AddLayerFirst(c, config) ==
    UNION {
        LET probed == Log(c, "can_connect", AppName, Some(can_connect))
        IN  IF can_connect
            THEN LET svc == probed.pebble.layer # None
                     listed == Log(probed, "get_services", AppName, Some(svc))
                 IN  UNION {
                        IF b.raised THEN {b}
                        ELSE UNION {
                                IF l.raised THEN {l}
                                ELSE UNION { IF s.raised THEN {s} ELSE PebbleStart(s)
                                           : s \in IF svc THEN PebbleStop(l) ELSE {l} }
                              : l \in PebbleAddLayer(b, b.layer[1]) }
                      : b \in BuildLayerByConfig(listed, config) }
            ELSE { Defer(SetStatus(probed, WaitingContainer)) }
      : can_connect \in BOOLEAN }

\* _update_pebble
UpdatePebble(c, config) ==
    UNION {
        LET probed == Log(c, "can_connect", AppName, Some(can_connect))
        IN  IF can_connect
            THEN LET svc == probed.pebble.layer # None
                     listed == Log(probed, "get_services", AppName, Some(svc))
                     stopped == IF svc THEN PebbleStop(listed) ELSE { listed }
                 IN  UNION {
                        IF s.raised THEN {s}
                        ELSE UNION {
                                IF b.raised THEN {b}
                                ELSE UNION {
                                        IF l.raised THEN {l} ELSE PebbleStart(l)
                                      : l \in PebbleAddLayer(b, b.layer[1]) }
                              : b \in BuildLayerByConfig(s, config) }
                      : s \in stopped }
            ELSE { Defer(SetStatus(probed, WaitingContainer)) }
      : can_connect \in BOOLEAN }

-----------------------------------------------------------------------------
(* The handlers.                                                           *)

\* the assignment that does not reach the stored state
Commit_NotStored(c, new_config) == Log(c, "commit", "", Some(new_config))

\* self._config = new_config
Commit(c, new_config) ==
    [Log(c, "commit", "", Some(new_config)) EXCEPT !.stored = new_config]

\* _on_install
OnInstall(c) ==
    UNION { IF a.raised THEN {a}
            ELSE IF ~a.ok
            THEN { Return(Defer(SetStatus(a, WaitingK8sAuth))) }
            ELSE UNION {
                    IF h.raised THEN {h}
                    ELSE CreateK8sService(h, AppName, BuildK8sSpecByConfig(h.stored))
                  : h \in CreateK8sService(SetStatus(a, MaintenanceCreating),
                                           HeadlessName, BuildK8sHeadlessSpec) }
          : a \in K8sAuth(c) }

\* the handler deferring on an invalid configuration without returning
OnConfigChanged_DeferOnly(c, incoming) ==
    LET c0 == IF ~ValidateConfig(incoming) THEN Defer(SetStatus(c, WaitingValidConfig)) ELSE c
        new_config == Merge(c0.stored, incoming)
        patched ==
            IF HasConfigChange(c0.stored, new_config, ExposureKeys)
            THEN UNION { IF a.raised THEN {a}
                         ELSE IF ~a.ok
                         THEN { Return(Defer(SetStatus(a, WaitingK8sAuth))) }
                         ELSE PatchK8sServiceByConfig(a, AppName, new_config)
                       : a \in K8sAuth(c0) }
            ELSE { c0 }
    IN  UNION {
            IF p.raised \/ p.returned THEN {p}
            ELSE LET updated ==
                        IF HasConfigChange(p.stored, new_config, RestartKeys)
                        THEN UpdatePebble(p, new_config)
                        ELSE { p }
                 IN  { IF u.raised THEN u ELSE Commit(u, new_config) : u \in updated }
          : p \in patched }

\* _on_config_changed
OnConfigChanged(c, incoming) ==
    IF ~ValidateConfig(incoming)
    THEN { Return(Defer(SetStatus(c, WaitingValidConfig))) }
    ELSE LET new_config == Merge(c.stored, incoming)
             patched ==
                IF HasConfigChange(c.stored, new_config, ExposureKeys)
                THEN UNION { IF a.raised THEN {a}
                             ELSE IF ~a.ok
                             THEN { Return(Defer(SetStatus(a, WaitingK8sAuth))) }
                             ELSE PatchK8sServiceByConfig(a, AppName, new_config)
                           : a \in K8sAuth(c) }
                ELSE { c }
         IN  UNION {
                IF p.raised \/ p.returned THEN {p}
                ELSE LET updated ==
                            IF HasConfigChange(p.stored, new_config, RestartKeys)
                            THEN UpdatePebble(p, new_config)
                            ELSE { p }
                     IN  { IF u.raised THEN u ELSE Commit(u, new_config) : u \in updated }
              : p \in patched }

\* _start_portainer_agent, for start and for pebble-ready
StartPortainerAgent(c) ==
    UNION {
        LET probed == Log(c, "can_connect", AppName, Some(can_connect))
        IN  IF can_connect
            THEN LET svc == probed.pebble.layer # None
                     listed == Log(probed, "get_services", AppName, Some(svc))
                     started ==
                        IF ~svc
                        THEN UNION {
                                IF b.raised THEN {b}
                                ELSE UNION {
                                        IF l.raised THEN {l} ELSE PebbleStart(l)
                                      : l \in PebbleAddLayer(b, b.layer[1]) }
                              : b \in BuildLayerByConfig(listed, listed.stored) }
                        ELSE { listed }
                 IN  { IF s.raised THEN s ELSE SetStatus(s, Active) : s \in started }
            ELSE { probed }
      : can_connect \in BOOLEAN }

\* _upgrade_charm: CHARM_VERSION equals the stored version; it only logs.
UpgradeCharm(c) == { c }

-----------------------------------------------------------------------------
(* The state machine.                                                      *)

\* The configurations the application is deployed with: the defaults, or edge
\* mode with its credentials (juju deploy --config edge=true ...).
DeployConfigs ==
    { DefaultConfig,
      [DefaultConfig EXCEPT ![CONFIG_EDGE] = TRUE,
                            ![CONFIG_EDGE_ID] = "X", ![CONFIG_EDGE_KEY] = "Y"] }

NoPass == [kind |-> "none", ops |-> <<>>, deferred |-> FALSE, raised |-> FALSE,
           before |-> DefaultConfig, repeat |-> FALSE]

\* no pure function applied
NoFn == [op |-> "none", a |-> <<>>, b |-> <<>>, keys |-> <<>>, done |-> FALSE, result |-> FALSE]

InitCharm ==
    /\ stored = DefaultConfig
    /\ modelConfig \in DeployConfigs
    /\ k8s = [n \in {AppName, HeadlessName} |-> None]
    /\ pebble = [layer |-> None, running |-> FALSE]
    /\ status = StatusUnset
    /\ pending = {"install"}
    /\ last = NoPass
    /\ passes = 0
    /\ sets = 0

Init == InitCharm /\ fn = NoFn

\* The state a pass of handler kind leaves, from the context r it ended in.
\* last.repeat: the pass is a config-changed pass that follows at once a
\* config-changed pass which committed (JujuConfig in between resets last, so
\* both passes were handed the same modelConfig).
Finish(kind, r) ==
    /\ stored' = r.stored
    /\ k8s' = r.k8s
    /\ pebble' = r.pebble
    /\ status' = r.status
    /\ pending' = IF r.deferred \/ r.raised THEN pending \cup {kind} ELSE pending \ {kind}
    /\ last' = [kind |-> kind, ops |-> r.ops, deferred |-> r.deferred, raised |-> r.raised,
                before |-> stored,
                repeat |-> /\ kind = "config_changed"
                           /\ last.kind = "config_changed"
                           /\ \E i \in 1..Len(last.ops) : last.ops[i].op = "commit"]
    /\ passes' = passes + 1
    /\ UNCHANGED <<modelConfig, sets, fn>>

\* install is the first hook Juju runs; it is run again while it is pending
\* (deferred, or failed and retried).  The other hooks follow it in any order
\* and any number of times.
Install ==
    /\ passes < MaxPasses
    /\ "install" \in pending
    /\ \E r \in OnInstall(Begin) : Finish("install", r)

ConfigChanged ==
    /\ passes < MaxPasses
    /\ passes > 0
    /\ \E r \in OnConfigChanged(Begin, modelConfig) : Finish("config_changed", r)

Start ==
    /\ passes < MaxPasses
    /\ passes > 0
    /\ \E r \in StartPortainerAgent(Begin) : Finish("start", r)

Upgrade ==
    /\ passes < MaxPasses
    /\ passes > 0
    /\ \E r \in UpgradeCharm(Begin) : Finish("upgrade_charm", r)

\* The operator changes one option of the application's configuration
\* (juju config key=value, or juju config --reset key).
JujuConfig ==
    /\ sets < MaxConfigSets
    /\ passes < MaxPasses
    /\ \E k \in ConfigKeys :
          \/ \E v \in FieldValues(k) :
                /\ PyGet(modelConfig, k) # Some(v)
                /\ modelConfig' = DictSet(modelConfig, k, v)
          \/ /\ k \in DOMAIN modelConfig
             /\ modelConfig' = DictDel(modelConfig, k)
    /\ sets' = sets + 1
    /\ last' = [NoPass EXCEPT !.before = stored]
    /\ UNCHANGED <<stored, k8s, pebble, status, pending, passes, fn>>

Next == Install \/ ConfigChanged \/ Start \/ Upgrade \/ JujuConfig

Spec == Init /\ [][Next]_vars

-----------------------------------------------------------------------------
(* The pure functions on their own: the initial state draws the arguments, *)
(* the action applies the function.                                        *)

MaxListLen == 2

\* every dict over the keys ks with values in the fields' value sets
RECURSIVE Dicts(_)
Dicts(ks) ==
    IF ks = {}
    THEN { [k \in {} |-> k] }
    ELSE LET k == CHOOSE j \in ks : TRUE
             rest == Dicts(ks \ {k})
         IN  rest \cup { DictSet(d, k, v) : d \in rest, v \in FieldValues(k) }

\* the fields the change detector is exercised on, and the key lists given
FnKeys == {CONFIG_EDGE, CONFIG_EDGE_ID, CONFIG_SERVICEHTTPPORT}
KeyLists ==
    UNION { [1..n -> FnKeys] : n \in 0..MaxListLen } \cup {ExposureKeys, RestartKeys}

\* the configurations the spec builder can be given: it subscripts
\* service_type, service_http_port and edge, and tests for the node port
BuildableConfigs ==
    { config \in Dicts(ConfigKeys) :
        {CONFIG_SERVICETYPE, CONFIG_SERVICEHTTPPORT, CONFIG_EDGE} \subseteq DOMAIN config }

FnInputs ==
    { [NoFn EXCEPT !.op = "validate", !.a = config] : config \in Dicts(ConfigKeys) }
    \cup
    { [NoFn EXCEPT !.op = "patch", !.a = config] : config \in BuildableConfigs }
    \cup
    { [NoFn EXCEPT !.op = "build_spec", !.a = config] : config \in BuildableConfigs }
    \cup
    { [NoFn EXCEPT !.op = "has_config_change", !.a = old, !.b = new, !.keys = keys] :
        old \in Dicts(FnKeys), new \in Dicts(FnKeys), keys \in KeyLists }

InitFn == InitCharm /\ fn \in FnInputs

FnValidateConfig ==
    /\ fn.op = "validate" /\ ~fn.done
    /\ fn' = [fn EXCEPT !.done = TRUE, !.result = ValidateConfig(fn.a)]
    /\ UNCHANGED <<stored, modelConfig, k8s, pebble, status, pending, last, passes, sets>>

FnHasConfigChange ==
    /\ fn.op = "has_config_change" /\ ~fn.done
    /\ fn' = [fn EXCEPT !.done = TRUE, !.result = HasConfigChange(fn.a, fn.b, fn.keys)]
    /\ UNCHANGED <<stored, modelConfig, k8s, pebble, status, pending, last, passes, sets>>

\* _patch_k8s_service_by_config: the document it builds and the calls it
\* makes, whatever the API server answers
FnPatchK8sServiceByConfig ==
    /\ fn.op = "patch" /\ ~fn.done
    /\ fn' = [fn EXCEPT !.done = TRUE,
                        !.result = [body |-> PatchBody(fn.a),
                                    calls |-> { r.ops : r \in PatchK8sServiceByConfig(
                                                                Begin, AppName, fn.a) }]]
    /\ UNCHANGED <<stored, modelConfig, k8s, pebble, status, pending, last, passes, sets>>

FnBuildK8sSpecByConfig ==
    /\ fn.op = "build_spec" /\ ~fn.done
    /\ fn' = [fn EXCEPT !.done = TRUE, !.result = BuildK8sSpecByConfig(fn.a)]
    /\ UNCHANGED <<stored, modelConfig, k8s, pebble, status, pending, last, passes, sets>>

NextFn ==
    \/ FnValidateConfig
    \/ FnHasConfigChange
    \/ FnPatchK8sServiceByConfig
    \/ FnBuildK8sSpecByConfig

SpecFn == InitFn /\ [][NextFn]_vars

-----------------------------------------------------------------------------
(* Reading the record of the last pass.  In the state a config-changed     *)
(* pass leaves, modelConfig is still the configuration the pass was given  *)
(* and last.before the configuration that was stored when it began.        *)

OpsOf(names) == SelectSeq(last.ops, LAMBDA o : o.op \in names)
Has(op) == \E i \in 1..Len(last.ops) : last.ops[i].op = op
HasWith(op, body) ==
    \E i \in 1..Len(last.ops) : last.ops[i].op = op /\ last.ops[i].body = body

K8sMutations ==
    {"delete_namespaced_service", "create_namespaced_service", "patch_namespaced_service"}
PebbleMutations == {"stop", "add_layer", "start"}
NoMutation == OpsOf(K8sMutations \cup PebbleMutations) = <<>>

IsConfigPass == last.kind = "config_changed"
NewConfig == Merge(last.before, modelConfig)
FieldChanged(k) == last.before[k] # NewConfig[k]
ExposureChanged ==
    \E k \in {CONFIG_SERVICETYPE, CONFIG_SERVICEHTTPNODEPORT, CONFIG_EDGE} : FieldChanged(k)
RestartChanged ==
    \E k \in {CONFIG_EDGE, CONFIG_EDGE_ID, CONFIG_EDGE_KEY, CONFIG_SERVICEHTTPPORT} :
        FieldChanged(k)
ProbeForbidden == HasWith("list_namespaced_service", Some(ApiForbidden))
CannotConnect == HasWith("can_connect", Some(FALSE))
CanConnect == HasWith("can_connect", Some(TRUE))

\* the value a patch document replaces /spec/<key> with
PatchValue(body, key) == body[CHOOSE i \in 1..Len(body) : body[i].path = <<"spec", key>>].value
PatchSets(body, key) == \E i \in 1..Len(body) : body[i].path = <<"spec", key>>

-----------------------------------------------------------------------------
(* C1: a config-changed pass that defers or raises leaves the stored       *)
(* configuration as it was; the configuration is written at most once, as  *)
(* the last thing of a pass that neither deferred nor raised.              *)
C1_CommitOnlyAfterSuccess ==
    IsConfigPass =>
        /\ (last.deferred \/ last.raised) => stored = last.before
        /\ Len(OpsOf({"commit"})) <= 1
        /\ Has("commit") =>
              /\ ~last.deferred /\ ~last.raised
              /\ last.ops[Len(last.ops)].op = "commit"

(* C2: a config-changed pass that finds a restart-relevant change while    *)
(* the container cannot be connected to defers without committing, so the  *)
(* change is still detected against the stored configuration afterwards.   *)
C2_PendingRestartChangeNotLost ==
    (IsConfigPass /\ RestartChanged /\ CannotConnect) =>
        /\ last.deferred
        /\ ~Has("commit")
        /\ stored = last.before
        /\ HasConfigChange(stored, Merge(stored, modelConfig), RestartKeys)

(* C3: an install pass whose permission probe returns 403 deletes and      *)
(* creates no service, defers, and ends with the Blocked status that asks  *)
(* for the trust grant.                                                    *)
C3_InstallWithoutAuthReportsBlocked ==
    (last.kind = "install" /\ ProbeForbidden) =>
        /\ OpsOf(K8sMutations) = <<>>
        /\ last.deferred
        /\ status = BlockedTrust

(* C4: a config-changed pass in which the permission probe returns 403     *)
(* performs no mutation, commits nothing and is deferred, whichever field  *)
(* set changed.  Stated for the passes in which no probe succeeds and      *)
(* nothing is raised, where the claim leaves the least room.               *)
C4_FailedProbeMeansNoMutation ==
    (/\ IsConfigPass
     /\ ProbeForbidden
     /\ ~HasWith("list_namespaced_service", Some(ApiOk))
     /\ ~last.raised) =>
        /\ NoMutation
        /\ ~Has("commit")
        /\ stored = last.before
        /\ last.deferred

(* C5: validate(config) is false with edge off and an unrecognized service *)
(* type or no http port, false with edge on and edge_id or edge_key absent *)
(* or empty, and true otherwise.                                           *)
ValidAsSpecified(config) ==
    IF ~Truthy(PyGet(config, CONFIG_EDGE))
    THEN /\ CONFIG_SERVICETYPE \in DOMAIN config
         /\ config[CONFIG_SERVICETYPE] \in {SERVICETYPE_CIP, SERVICETYPE_LB, SERVICETYPE_NP}
         /\ CONFIG_SERVICEHTTPPORT \in DOMAIN config
    ELSE /\ PyGet(config, CONFIG_EDGE_ID) \notin {None, Some("")}
         /\ PyGet(config, CONFIG_EDGE_KEY) \notin {None, Some("")}

C5_ValidateRejectsEmptyCredentials ==
    (fn.op = "validate" /\ fn.done) => (fn.result <=> ValidAsSpecified(fn.a))

(* C6: _has_config_change(new, F) is true exactly when some key of F has   *)
(* different values in the stored and the target configuration, a key      *)
(* present in only one of them counting as different.                      *)
KeyDiffers(old, new, k) ==
    \/ (k \in DOMAIN old) # (k \in DOMAIN new)
    \/ k \in DOMAIN old /\ k \in DOMAIN new /\ old[k] # new[k]

C6_ChangeIffSomeKeyDiffers ==
    (fn.op = "has_config_change" /\ fn.done) =>
        (fn.result <=> \E i \in 1..Len(fn.keys) : KeyDiffers(fn.a, fn.b, fn.keys[i]))

\* the second key of the list is present only in the target, the first is equal
C6_Witness ==
    /\ fn.op = "has_config_change" /\ fn.done /\ fn.result
    /\ Len(fn.keys) = 2
    /\ ~KeyDiffers(fn.a, fn.b, fn.keys[1])
    /\ fn.keys[2] \notin DOMAIN fn.a /\ fn.keys[2] \in DOMAIN fn.b

(* C7: a config-changed pass that follows at once a config-changed pass    *)
(* which committed, with the same incoming configuration, probes nothing,  *)
(* mutates nothing and leaves the stored configuration as committed.       *)
C7_RepeatedConfigIsNoOp ==
    (IsConfigPass /\ last.repeat) =>
        /\ ~ExposureChanged /\ ~RestartChanged
        /\ NoMutation
        /\ ~Has("list_namespaced_service") /\ ~Has("can_connect")
        /\ ~last.deferred /\ ~last.raised
        /\ stored = last.before

C7_Witness ==
    /\ IsConfigPass /\ last.repeat
    /\ stored # DefaultConfig
    /\ stored = last.before

(* C8: a valid, authenticated config-changed pass that changes only        *)
(* service_type and/or service_http_node_port issues exactly one patch of  *)
(* the primary service, built from the new configuration, and no stop,     *)
(* add_layer or start.                                                     *)
C8_Case ==
    /\ IsConfigPass
    /\ ValidateConfig(modelConfig)
    /\ FieldChanged(CONFIG_SERVICETYPE) \/ FieldChanged(CONFIG_SERVICEHTTPNODEPORT)
    /\ ~RestartChanged
    /\ Len(last.ops) >= 1
    /\ last.ops[1].op = "list_namespaced_service"
    /\ last.ops[1].body = Some(ApiOk)

C8_OnePatchNoRestart ==
    LET patches == OpsOf({"patch_namespaced_service"})
    IN  /\ Len(patches) = 1
        /\ patches[1].name = AppName
        /\ patches[1].body = Some(PatchBody(NewConfig))
        /\ OpsOf(PebbleMutations) = <<>>

C8_PatchIsNodePort ==
    LET body == OpsOf({"patch_namespaced_service"})[1].body[1]
    IN  /\ PatchValue(body, "type") = SERVICETYPE_NP
        /\ PatchSets(body, "ports")
        /\ "nodePort" \in DOMAIN PatchValue(body, "ports")[1]
        /\ PatchValue(body, "ports")[1]["nodePort"] = NewConfig[CONFIG_SERVICEHTTPNODEPORT]

C8_PatchIsInternalOnly ==
    LET body == OpsOf({"patch_namespaced_service"})[1].body[1]
    IN  /\ PatchValue(body, "type") = SERVICETYPE_CIP
        /\ PatchSets(body, "clusterIP")
        /\ PatchValue(body, "clusterIP") = "None"

\* as claimed: the patch is of type NodePort whenever the new service_type is NodePort
C8_AsClaimed ==
    C8_Case =>
        /\ C8_OnePatchNoRestart
        /\ NewConfig[CONFIG_SERVICETYPE] = SERVICETYPE_NP => C8_PatchIsNodePort

\* as amended: that holds with edge disabled; with edge enabled the patch is
\* the internal-only spec
C8_PatchBuiltFromNewConfig ==
    C8_Case =>
        /\ C8_OnePatchNoRestart
        /\ (NewConfig[CONFIG_SERVICETYPE] = SERVICETYPE_NP /\ ~NewConfig[CONFIG_EDGE])
              => C8_PatchIsNodePort
        /\ NewConfig[CONFIG_EDGE] => C8_PatchIsInternalOnly

C8_Witness ==
    /\ C8_Case
    /\ last.before[CONFIG_SERVICETYPE] = SERVICETYPE_LB
    /\ NewConfig[CONFIG_SERVICETYPE] = SERVICETYPE_NP
    /\ ~NewConfig[CONFIG_EDGE]
    /\ Has("commit")
    /\ k8s[AppName] # None /\ k8s[AppName][1]["type"] = SERVICETYPE_NP

(* C9: in a config-changed pass that restarts the process the calls come   *)
(* in the order patch (if the exposure fields changed), stop (if and only  *)
(* if the service already exists), add_layer, start, commit; a pass that   *)
(* enables edge installs a descriptor with EDGE=1 and the new edge_id and  *)
(* edge_key, and patches the service to the internal-only spec.            *)
Rank(op) ==
    CASE op = "patch_namespaced_service" -> 1
      [] op = "stop" -> 2
      [] op = "add_layer" -> 3
      [] op = "start" -> 4
      [] op = "commit" -> 5

C9_RestartOrder ==
    LET steps == OpsOf({"patch_namespaced_service", "stop", "add_layer", "start", "commit"})
        enabling == ~last.before[CONFIG_EDGE] /\ NewConfig[CONFIG_EDGE]
    IN  (IsConfigPass /\ CanConnect) =>
            /\ \A i, j \in 1..Len(steps) : i < j => Rank(steps[i].op) < Rank(steps[j].op)
            /\ Has("patch_namespaced_service") <=> ExposureChanged
            /\ Has("stop") <=> HasWith("get_services", Some(TRUE))
            /\ Has("start") => Has("add_layer")
            /\ Has("commit") => Has("start")
            /\ ~last.raised => Has("commit")
            /\ enabling =>
                  /\ \A i \in 1..Len(steps) :
                        steps[i].op = "add_layer" =>
                            LET env == steps[i].body[1].environment
                            IN  /\ env.EDGE = "1"
                                /\ env.EDGE_ID = NewConfig[CONFIG_EDGE_ID]
                                /\ env.EDGE_KEY = NewConfig[CONFIG_EDGE_KEY]
                  /\ C8_PatchIsInternalOnly

C9_Witness ==
    /\ IsConfigPass /\ CanConnect
    /\ ~last.before[CONFIG_EDGE] /\ NewConfig[CONFIG_EDGE]
    /\ NewConfig[CONFIG_EDGE_ID] = "X" /\ NewConfig[CONFIG_EDGE_KEY] = "Y"
    /\ Has("stop") /\ Has("commit")
    /\ pebble.running
    /\ pebble.layer[1].environment.EDGE_ID = "X"

(* C10: a descriptor handed to add_layer holds the environment keys EDGE,  *)
(* EDGE_ID and EDGE_KEY exactly when edge is enabled in the configuration  *)
(* it was built from.                                                      *)
C10_EdgeKeysOnlyWhenEdgeEnabled ==
    \A i \in 1..Len(last.ops) :
        last.ops[i].op = "add_layer" =>
            LET env == last.ops[i].body[1].environment
                config == IF IsConfigPass THEN NewConfig ELSE last.before
            IN  IF config[CONFIG_EDGE]
                THEN {"EDGE", "EDGE_ID", "EDGE_KEY"} \subseteq DOMAIN env
                ELSE {"EDGE", "EDGE_ID", "EDGE_KEY"} \cap DOMAIN env = {}

\* the descriptor a pass handed to add_layer
LayerEnv == OpsOf({"add_layer"})[1].body[1].environment
PodNotFound == HasWith("read_namespaced_pod", Some(ApiNotFound))
ServiceNotFound == HasWith("read_namespaced_service", Some(ApiNotFound))

(* C11: a config-changed or start pass in which a discovery lookup answers *)
(* 404, and nothing else fails, hands a descriptor to add_layer that does  *)
(* not hold the environment key of that lookup, holds the key of the other *)
(* lookup when that one succeeded, and ends with a Waiting status.         *)
C11_Case ==
    /\ last.kind \in {"config_changed", "start"}
    /\ Has("read_namespaced_pod")
    /\ Has("read_namespaced_service")
    /\ PodNotFound \/ ServiceNotFound
    /\ ~last.raised

C11_NotFoundOmitsKeyAndWaits ==
    C11_Case =>
        /\ Has("add_layer")
        /\ ServiceNotFound <=> "AGENT_CLUSTER_ADDR" \notin DOMAIN LayerEnv
        /\ PodNotFound <=> "KUBERNETES_POD_IP" \notin DOMAIN LayerEnv
        /\ status \in {WaitingPod, WaitingService}

(* C12: the patch document holds exactly one replace operation for every   *)
(* top-level field of the serialized spec that is not null, at             *)
(* /spec/<field>, with the field's value stripped of nulls; the document   *)
(* is what the one patch call carries, and an empty document is not sent.  *)
C12_PatchDocumentHasNoNulls ==
    (fn.op = "patch" /\ fn.done) =>
        LET body == fn.result.body
            json == SanitizeForSerialization(BuildK8sSpecByConfig(fn.a))
            surviving == {k \in DOMAIN json : json[k] # None}
        IN  /\ {body[i].path : i \in 1..Len(body)} = {<<"spec", k>> : k \in surviving}
            /\ Len(body) = Cardinality(surviving)
            /\ \A i \in 1..Len(body) :
                  LET k == body[i].path[2]
                  IN  /\ body[i].op = "replace"
                      /\ IF k = "ports"
                         THEN /\ Len(body[i].value) = Len(json[k][1])
                              /\ \A j \in 1..Len(body[i].value) :
                                    LET port == body[i].value[j]
                                        full == json[k][1][j]
                                    IN  /\ DOMAIN port = {f \in DOMAIN full : full[f] # None}
                                        /\ \A f \in DOMAIN port : port[f] = full[f][1]
                         ELSE body[i].value = json[k][1]
            /\ \A ops \in fn.result.calls :
                  IF body = <<>>
                  THEN ops = <<>>
                  ELSE /\ Len(ops) = 1
                       /\ ops[1].op = "patch_namespaced_service"
                       /\ ops[1].body = Some(body)

\* a LoadBalancer spec: cluster address and node port are null and stripped
C12_Witness ==
    /\ fn.op = "patch" /\ fn.done
    /\ fn.a[CONFIG_SERVICETYPE] = SERVICETYPE_LB /\ ~fn.a[CONFIG_EDGE]
    /\ Len(fn.result.body) = 3
    /\ ~PatchSets(fn.result.body, "clusterIP")
    /\ "nodePort" \notin DOMAIN PatchValue(fn.result.body, "ports")[1]
    /\ fn.result.calls # {}

(* C13: in an install pass every create follows at once a delete of the    *)
(* same name that answered ok or 404, every such delete is followed by the *)
(* create, a delete that fails otherwise ends the pass with the exception, *)
(* and no create meets an existing service; a pass that completes leaves   *)
(* the headless service and the primary service built from the stored      *)
(* configuration.                                                          *)
C13_InstallIsRerunnable ==
    LET steps == OpsOf({"delete_namespaced_service", "create_namespaced_service"})
        IsDelete(i) == steps[i].op = "delete_namespaced_service"
        IsCreate(i) == steps[i].op = "create_namespaced_service"
    IN  last.kind = "install" =>
            /\ \A i \in 1..Len(steps) :
                  IsCreate(i) =>
                      /\ i > 1
                      /\ IsDelete(i - 1)
                      /\ steps[i - 1].name = steps[i].name
                      /\ steps[i - 1].body \in {Some(ApiOk), Some(ApiNotFound)}
                      /\ steps[i].body[1].answer # ApiConflict
            /\ \A i \in 1..Len(steps) :
                  IsDelete(i) =>
                      IF steps[i].body \in {Some(ApiOk), Some(ApiNotFound)}
                      THEN /\ i < Len(steps)
                           /\ IsCreate(i + 1)
                           /\ steps[i + 1].name = steps[i].name
                      ELSE i = Len(steps) /\ last.raised
            /\ last.deferred => steps = <<>>
            /\ (~last.raised /\ ~last.deferred) =>
                  /\ [i \in 1..Len(steps) |-> steps[i].name] =
                        <<HeadlessName, HeadlessName, AppName, AppName>>
                  /\ k8s[HeadlessName] = Some(Serialize(BuildK8sHeadlessSpec))
                  /\ k8s[AppName] = Some(Serialize(BuildK8sSpecByConfig(stored)))

\* a retry after a pass aborted between the two creations and a
\* config-changed pass that committed: the headless service is there and is
\* deleted, the primary is not (404 ignored)
C13_Witness ==
    /\ last.kind = "install" /\ ~last.raised /\ ~last.deferred
    /\ passes >= 2
    /\ \E i \in 1..Len(last.ops) :
          /\ last.ops[i].op = "delete_namespaced_service"
          /\ last.ops[i].name = HeadlessName
          /\ last.ops[i].body = Some(ApiOk)
    /\ \E i \in 1..Len(last.ops) :
          /\ last.ops[i].op = "delete_namespaced_service"
          /\ last.ops[i].name = AppName
          /\ last.ops[i].body = Some(ApiNotFound)
    /\ stored # DefaultConfig
    /\ k8s[AppName] # None /\ k8s[HeadlessName] # None

(* C14: the primary spec has exactly one port entry, named http, with the  *)
(* configured service_http_port and target port 9001; with edge disabled   *)
(* its type is the configured service_type and the entry carries a node    *)
(* port only when service_type is NodePort and the configuration holds a   *)
(* node port, which is then the one carried; with edge enabled its type is *)
(* ClusterIP and its cluster address "None", whatever service_type says.   *)
C14_SpecShape ==
    (fn.op = "build_spec" /\ fn.done) =>
        LET config == fn.a
            spec == fn.result
        IN  /\ spec.ports # None
            /\ Len(spec.ports[1]) = 1
            /\ spec.ports[1][1].name = "http"
            /\ spec.ports[1][1].port = config[CONFIG_SERVICEHTTPPORT]
            /\ spec.ports[1][1].target_port = 9001
            /\ ~config[CONFIG_EDGE] =>
                  /\ spec.type = Some(config[CONFIG_SERVICETYPE])
                  /\ spec.ports[1][1].node_port # None =>
                        /\ config[CONFIG_SERVICETYPE] = SERVICETYPE_NP
                        /\ CONFIG_SERVICEHTTPNODEPORT \in DOMAIN config
                        /\ spec.ports[1][1].node_port =
                              Some(config[CONFIG_SERVICEHTTPNODEPORT])
            /\ config[CONFIG_EDGE] =>
                  /\ spec.type = Some(SERVICETYPE_CIP)
                  /\ spec.cluster_ip = Some("None")

\* edge enabled over a configured LoadBalancer on a port other than 9001
C14_Witness ==
    /\ fn.op = "build_spec" /\ fn.done
    /\ fn.a[CONFIG_EDGE]
    /\ fn.a[CONFIG_SERVICETYPE] = SERVICETYPE_LB
    /\ fn.a[CONFIG_SERVICEHTTPPORT] # 9001
    /\ fn.result.type = Some(SERVICETYPE_CIP)
    /\ fn.result.ports[1][1].target_port = 9001

(* C15: a config-changed pass whose incoming configuration fails           *)
(* validation sets the waiting-for-a-valid-config status, defers, and does *)
(* nothing else: no exception, no probe, no patch, no Pebble call, and the *)
(* stored configuration is the one stored before.                          *)
C15_InvalidConfigOnlyDefers ==
    (IsConfigPass /\ ~ValidateConfig(modelConfig)) =>
        /\ last.deferred
        /\ ~last.raised
        /\ status = WaitingValidConfig
        /\ Len(last.ops) = 1 /\ last.ops[1].op = "defer"
        /\ stored = last.before

\* an unrecognized service type arrives after the service was installed
C15_Witness ==
    /\ IsConfigPass
    /\ CONFIG_SERVICETYPE \in DOMAIN modelConfig
    /\ modelConfig[CONFIG_SERVICETYPE] = "ExternalName"
    /\ ~ValidateConfig(modelConfig)
    /\ last.deferred
    /\ "config_changed" \in pending
    /\ k8s[AppName] # None
    /\ k8s[AppName][1]["type"] = SERVICETYPE_LB

\* the primary service the API server holds is the one built from config
RemoteMatches(services, config) ==
    services[AppName] = Some(Serialize(BuildK8sSpecByConfig(config)))

(* C16: a config-changed pass that commits, begun with the primary service *)
(* equal to the spec of the stored configuration, ends with the primary    *)
(* service equal to the spec of the newly stored configuration.            *)
C16_RemoteSpecConverges ==
    [][ (/\ passes' = passes + 1
         /\ last'.kind = "config_changed"
         /\ \E i \in 1..Len(last'.ops) : last'.ops[i].op = "commit"
         /\ RemoteMatches(k8s, stored))
        => RemoteMatches(k8s', stored') ]_vars

\* container.stop returned: the call is in the record and is not the call
\* the pass ended on
StopSucceeded ==
    \E i \in 1..Len(last.ops) : last.ops[i].op = "stop" /\ i < Len(last.ops)
\* the pass ended on an exception of add_layer or start
SupervisorFailed ==
    /\ last.raised
    /\ last.ops[Len(last.ops)].op \in {"add_layer", "start"}

(* C17: a config-changed pass that begins with the process running and in  *)
(* which _update_pebble stops it ends with the process running, whatever   *)
(* the permission probe and the discovery lookups of the descriptor        *)
(* construction answer.  (Passes ended by a failure of Pebble's add_layer  *)
(* or start are left aside.)                                               *)
C17_RestartNeverLeavesStopped ==
    [][ (/\ passes' = passes + 1
         /\ pebble.running
         /\ IsConfigPass' /\ StopSucceeded' /\ ~SupervisorFailed')
        => pebble'.running ]_vars

\* The status is one that a deferred config-changed pass has set: the
\* waiting-for-a-valid-config and waiting-for-container statuses are set
\* nowhere else; waiting-for-k8s-auth is also set by install.
SetByDeferredConfigPass ==
    \/ status \in {WaitingValidConfig, WaitingContainer}
    \/ status = WaitingK8sAuth /\ IsConfigPass /\ last.deferred

(* C18: when the status is a waiting status set by a deferred              *)
(* config-changed pass, a config-changed pass that commits without         *)
(* deferring or raising ends with another status.                          *)
C18_WaitingStatusCleared ==
    [][ (/\ passes' = passes + 1
         /\ SetByDeferredConfigPass
         /\ IsConfigPass'
         /\ Has("commit")' /\ ~last'.deferred /\ ~last'.raised)
        => status' # status ]_vars

\* a serialized spec, or the spec a patch document writes, carries a node
\* port on a port entry
CarriesNodePort(ports) == \E j \in 1..Len(ports) : "nodePort" \in DOMAIN ports[j]

(* C19: every spec that an install or config-changed pass sends in a       *)
(* create or a patch carries a node port on a port entry only if its type  *)
(* is NodePort.                                                            *)
C19_NodePortOnlyOnNodePortType ==
    last.kind \in {"install", "config_changed"} =>
        \A i \in 1..Len(last.ops) :
            /\ last.ops[i].op = "create_namespaced_service" =>
                  LET spec == last.ops[i].body[1].spec
                  IN  ("ports" \in DOMAIN spec /\ CarriesNodePort(spec["ports"])) =>
                          ("type" \in DOMAIN spec /\ spec["type"] = SERVICETYPE_NP)
            /\ last.ops[i].op = "patch_namespaced_service" =>
                  LET body == last.ops[i].body[1]
                  IN  (PatchSets(body, "ports") /\ CarriesNodePort(PatchValue(body, "ports"))) =>
                          (PatchSets(body, "type") /\ PatchValue(body, "type") = SERVICETYPE_NP)

=============================================================================
